---- MODULE Spec2Model ----
(***************************************************************************)
(* A model of rnnvis/server/model_manager.py: the ModelManager's lazy      *)
(* model cache (_get_model / _load_model) and the public operations that   *)
(* resolve a model by name and drive the collaborators (model builder,     *)
(* recorders, producers, evaluate_and_record).                             *)
(*                                                                         *)
(* Every handler is a pure operator from the manager's state (a record S)  *)
(* and the handler's inputs to the state after the call, the value         *)
(* returned or the exception raised, and the collaborator calls it made.   *)
(* Collaborators that live outside the file (build_model, the checkpoint   *)
(* directory, SentenceProducer, evaluate_and_record) are inputs drawn from *)
(* bounded sets.                                                           *)
(***************************************************************************)
EXTENDS Integers, Sequences, FiniteSets, TLC

VARIABLES
    _models,          \* self._models: name -> handle
    _train_configs,   \* self._train_configs: name -> training configuration
    evaluator,        \* handle id -> record_every of model.evaluator
    restored,         \* ids of the handles restore() was applied to
    checkpoint,       \* the paths of the checkpoint directories that exist
    calls,            \* collaborator call counts, per requested name
    last,             \* what the last public call did and returned
    proj,             \* one projection packaging: its inputs and what it gave
    callers,          \* two unserialized callers: position, locals and outcome of each
    gen               \* one run of the branching generator: its inputs and its tree

\* The manager, and what the specifications of single algorithms add to it.
manager == <<_models, _train_configs, evaluator, restored, checkpoint, calls, last>>
others == <<proj, callers, gen>>
vars == <<manager, others>>

----------------------------------------------------------------------------
(* Bounds *)

MaxBuilds == 2        \* build_model invocations in one run
MaxLen == 2           \* longest input sequence
MaxSeqs == 2          \* sequences in one ad-hoc batch
MaxLayers == 3        \* cells of a model
MaxPoints == 2        \* points of a projection
MaxBranch == 2        \* max_branch of a generation
MaxStep == 2          \* max_step of a generation
Scale == 4            \* a probability is a number of 1/Scale

----------------------------------------------------------------------------
(* Module constants *)

_config_dir == "config"
_model_dir == "models"

_available_models ==
    [n \in {"PTB-LSTM", "Shakespeare", "IMDB", "PTB-GRU"} |->
        [config |-> CASE n = "PTB-LSTM" -> "lstm.yml"
                      [] n = "Shakespeare" -> "shakespeare.yml"
                      [] n = "IMDB" -> "imdb-tiny.yml"
                      [] OTHER -> "gru.yml"]]

\* The names the callers of the model ask for: two of the catalog, one outside it.
Names == {"PTB-LSTM", "IMDB", "no-such-model"}

Partitions == {"train", "valid", "test", "dev"}

None == "None"

get_path(dir, file) == <<dir, file>>

----------------------------------------------------------------------------
(* The manager's state as one record, and the initial state *)

State ==
    [models |-> _models, train_configs |-> _train_configs, evaluator |-> evaluator,
     restored |-> restored, checkpoint |-> checkpoint, calls |-> calls]

NoCalls ==
    [build |-> [n \in Names |-> 0], add_generator |-> [n \in Names |-> 0],
     add_evaluator |-> [n \in Names |-> 0], restore |-> [n \in Names |-> 0],
     load_failed |-> [n \in Names |-> 0], built |-> 0]

\* The handle-less result of a resolution (Python's None where a handle is expected).
NoModel == [id |-> -1, name |-> None]

\* What a public call is observed to do besides returning.
NoObs ==
    [model |-> NoModel,   \* the handle the resolution gave
     loads |-> 0,         \* build_model calls
     recorder |-> None,   \* the recorder constructed
     window |-> 0,        \* the window of the producer constructed (0: none)
     before |-> 0,        \* evaluator.record_every of the handle when it was resolved
     evalCalls |-> 0,     \* evaluate_and_record calls
     stride |-> 0,        \* evaluator.record_every when evaluate_and_record is called
     exc |-> None,        \* what evaluate_and_record raised
     collab |-> None,     \* the collaborator the work is handed to
     method |-> None]     \* the method asked of model_state_projection

Returns(v) == [kind |-> "return", val |-> v]
Raises(e) == [kind |-> "raise", val |-> e]

Put(f, k, v) == [x \in DOMAIN f \cup {k} |-> IF x = k THEN v ELSE f[x]]

\* Mutant: the length of the first sequence instead of the longest.
Max_first(lens) == Head(lens)

RECURSIVE Max(_)
Max(lens) ==
    IF Len(lens) = 1 THEN Head(lens)
    ELSE LET m == Max(Tail(lens)) IN IF Head(lens) > m THEN Head(lens) ELSE m

----------------------------------------------------------------------------
(* Collaborators *)

\* The num_steps a configuration file gives.  The files are outside the source;
\* these values stand for them: one above every input length, one among them.
config_num_steps(config_file) ==
    CASE config_file[2] = "lstm.yml" -> MaxLen + 1
      [] config_file[2] = "imdb-tiny.yml" -> 1
      [] OTHER -> 2

\* build_model(config_file): a fresh handle and the configuration the file gives.
\* The handle's name and the dataset come from the file.
build_model(config_file, id) ==
    [model |-> [id |-> id, name |-> config_file[2]],
     train_config |-> [dataset |-> config_file[2],
                       num_steps |-> config_num_steps(config_file)]]

\* model.add_evaluator(1, 1, 100, True): the evaluator's record_every is the
\* second argument.
add_evaluator(batch_size, record_every, log_every, verbose) == record_every

\* assert_path_exists(path)
path_exists(S, path) == path \in S.checkpoint

----------------------------------------------------------------------------
(* The model cache *)

\* Mutant: the checkpoint directory is checked before the model is built.
_load_model_checks_first(S, name, train) ==
    IF name \in DOMAIN _available_models
    THEN LET config_file == get_path(_config_dir, _available_models[name].config)
             b == build_model(config_file, S.calls.built)
             model == b.model
             c1 == [S.calls EXCEPT !.built = @ + 1, !.build[name] = @ + 1,
                                   !.add_generator[name] = @ + 1,
                                   !.add_evaluator[name] = @ + 1]
         IN  IF ~train /\ ~path_exists(S, get_path(_model_dir, model.name))
             THEN [S |-> [S EXCEPT !.calls.load_failed[name] = @ + 1],
                   flag |-> FALSE, exc |-> "assert_path_exists"]
             ELSE [S |-> [S EXCEPT
                            !.calls = IF train THEN c1
                                      ELSE [c1 EXCEPT !.restore[name] = @ + 1],
                            !.restored = IF train THEN @ ELSE @ \cup {model.id},
                            !.evaluator = Put(@, model.id, add_evaluator(1, 1, 100, TRUE)),
                            !.models = Put(@, name, model),
                            !.train_configs = Put(@, name, b.train_config)],
                   flag |-> TRUE, exc |-> None]
    ELSE [S |-> S, flag |-> FALSE, exc |-> None]

\* Mutant: the handle is put in the cache before the checkpoint is checked.
_load_model_installs_first(S, name, train) ==
    IF name \in DOMAIN _available_models
    THEN LET config_file == get_path(_config_dir, _available_models[name].config)
             b == build_model(config_file, S.calls.built)
             model == b.model
             c1 == [S.calls EXCEPT !.built = @ + 1, !.build[name] = @ + 1,
                                   !.add_generator[name] = @ + 1,
                                   !.add_evaluator[name] = @ + 1]
         IN  IF ~train /\ ~path_exists(S, get_path(_model_dir, model.name))
             THEN [S |-> [S EXCEPT !.calls = [c1 EXCEPT !.load_failed[name] = @ + 1],
                                !.evaluator = Put(@, model.id, add_evaluator(1, 1, 100, TRUE)),
                                !.models = Put(@, name, model)],
                   flag |-> FALSE, exc |-> "assert_path_exists"]
             ELSE [S |-> [S EXCEPT
                            !.calls = IF train THEN c1
                                      ELSE [c1 EXCEPT !.restore[name] = @ + 1],
                            !.restored = IF train THEN @ ELSE @ \cup {model.id},
                            !.evaluator = Put(@, model.id, add_evaluator(1, 1, 100, TRUE)),
                            !.models = Put(@, name, model),
                            !.train_configs = Put(@, name, b.train_config)],
                   flag |-> TRUE, exc |-> None]
    ELSE [S |-> S, flag |-> FALSE, exc |-> None]

\* Mutant: a missing checkpoint directory is reported as a failed load, not raised.
_load_model_swallows(S, name, train) ==
    IF name \in DOMAIN _available_models
    THEN LET config_file == get_path(_config_dir, _available_models[name].config)
             b == build_model(config_file, S.calls.built)
             model == b.model
             c1 == [S.calls EXCEPT !.built = @ + 1, !.build[name] = @ + 1,
                                   !.add_generator[name] = @ + 1,
                                   !.add_evaluator[name] = @ + 1]
         IN  IF ~train /\ ~path_exists(S, get_path(_model_dir, model.name))
             THEN [S |-> [S EXCEPT !.calls = [c1 EXCEPT !.load_failed[name] = @ + 1]],
                   flag |-> FALSE, exc |-> None]
             ELSE [S |-> [S EXCEPT
                            !.calls = IF train THEN c1
                                      ELSE [c1 EXCEPT !.restore[name] = @ + 1],
                            !.restored = IF train THEN @ ELSE @ \cup {model.id},
                            !.evaluator = Put(@, model.id, add_evaluator(1, 1, 100, TRUE)),
                            !.models = Put(@, name, model),
                            !.train_configs = Put(@, name, b.train_config)],
                   flag |-> TRUE, exc |-> None]
    ELSE [S |-> S, flag |-> FALSE, exc |-> None]

_load_model(S, name, train) ==
    IF name \in DOMAIN _available_models
    THEN LET config_file == get_path(_config_dir, _available_models[name].config)
             b == build_model(config_file, S.calls.built)
             model == b.model
             c1 == [S.calls EXCEPT !.built = @ + 1, !.build[name] = @ + 1,
                                   !.add_generator[name] = @ + 1,
                                   !.add_evaluator[name] = @ + 1]
         IN  IF ~train /\ ~path_exists(S, get_path(_model_dir, model.name))
             THEN [S |-> [S EXCEPT !.calls = [c1 EXCEPT !.load_failed[name] = @ + 1]],
                   flag |-> FALSE, exc |-> "assert_path_exists"]
             ELSE [S |-> [S EXCEPT
                            !.calls = IF train THEN c1
                                      ELSE [c1 EXCEPT !.restore[name] = @ + 1],
                            !.restored = IF train THEN @ ELSE @ \cup {model.id},
                            !.evaluator = Put(@, model.id, add_evaluator(1, 1, 100, TRUE)),
                            !.models = Put(@, name, model),
                            !.train_configs = Put(@, name, b.train_config)],
                   flag |-> TRUE, exc |-> None]
    ELSE [S |-> S, flag |-> FALSE, exc |-> None]

\* Mutant: the cache is not consulted.
_get_model_always_loads(S, name, train) ==
    IF FALSE
    THEN [S |-> S, model |-> S.models[name], exc |-> None]
    ELSE LET r == _load_model(S, name, train)
         IN  [S |-> r.S, exc |-> r.exc,
              model |-> IF r.exc = None /\ r.flag THEN r.S.models[name] ELSE NoModel]

_get_model(S, name, train) ==
    IF name \in DOMAIN S.models
    THEN [S |-> S, model |-> S.models[name], exc |-> None]
    ELSE LET r == _load_model(S, name, train)
         IN  [S |-> r.S, exc |-> r.exc,
              model |-> IF r.exc = None /\ r.flag THEN r.S.models[name] ELSE NoModel]

\* What resolving did, as every public operation observes it.
Resolved(S, g) ==
    [NoObs EXCEPT !.model = g.model, !.loads = g.S.calls.built - S.calls.built,
                  !.before = IF g.model.id \in DOMAIN g.S.evaluator
                             THEN g.S.evaluator[g.model.id] ELSE 0]

----------------------------------------------------------------------------
(* Inputs of the recording operations *)

\* The lengths of the sequences of a batch, in order; a sequence is of the
\* shortest or of the longest length.
RECURSIVE Batches(_)
Batches(n) ==
    IF n = 0 THEN {<< >>}
    ELSE Batches(n - 1) \cup
         {Append(b, l) : b \in {x \in Batches(n - 1) : Len(x) = n - 1}, l \in {1, MaxLen}}

\* `sequences`: a list of sequences, or an already wrapped Feeder (which may or
\* may not support iteration; when it does, it yields items of these lengths).
SequenceInputs ==
    [kind : {"list"}, iterable : {TRUE}, lens : Batches(MaxSeqs)]
    \cup [kind : {"Feeder"}, iterable : {TRUE}, lens : {<< >>, <<MaxLen>>}]
    \cup [kind : {"Feeder"}, iterable : {FALSE}, lens : {<< >>}]

NoSequences == [kind |-> None, iterable |-> FALSE, lens |-> << >>]

\* The longest of the given lengths (0 when there is none).
Longest(lens) ==
    IF lens = << >> THEN 0
    ELSE CHOOSE m \in {lens[i] : i \in 1..Len(lens)} :
            \A i \in 1..Len(lens) : lens[i] <= m

\* What is kept of the `sequences` argument of the last call.
Summary(sequences) ==
    [kind |-> sequences.kind, iterable |-> sequences.iterable,
     count |-> Len(sequences.lens), longest |-> Longest(sequences.lens)]

\* What the collaborators of a recording call do: building the producer fails
\* (wrap_fails), or evaluate_and_record completes (exc = None) or raises exc.
Collaborators ==
    [wrap_fails : {TRUE}, exc : {None}]
    \cup [wrap_fails : {FALSE}, exc : {None, "ValueError", "RuntimeError"}]

----------------------------------------------------------------------------
(* Public operations.  Each gives [S: the state after, ret: the value returned *)
(* or the exception raised, obs: the collaborator calls made].                 *)

get_config_filename(S, name) ==
    [S |-> S, obs |-> NoObs,
     ret |-> IF name \in DOMAIN _available_models
             THEN Returns(_available_models[name].config)
             ELSE Returns(None)]

\* Mutant: only ValueError is caught around the streaming call.
model_record_sequence_narrow_except(S, name, sequences, env) ==
    LET g == _get_model(S, name, FALSE)
        o == Resolved(S, g)
    IN  IF g.exc # None THEN [S |-> g.S, ret |-> Raises(g.exc), obs |-> o]
        ELSE IF g.model = NoModel THEN [S |-> g.S, ret |-> Returns(None), obs |-> o]
        ELSE IF name \notin DOMAIN g.S.train_configs
        THEN [S |-> g.S, ret |-> Raises("KeyError"), obs |-> o]
        ELSE IF ~sequences.iterable
        THEN [S |-> g.S, ret |-> Raises("TypeError"), obs |-> o]
        ELSE IF sequences.lens = << >>
        THEN [S |-> g.S, ret |-> Raises("ValueError"), obs |-> o]
        ELSE
        LET max_len == Max(sequences.lens)
            o1 == [o EXCEPT !.recorder = "BufferRecorder"]
            wraps == sequences.kind # "Feeder"
        IN  IF wraps /\ env.wrap_fails
            THEN [S |-> g.S, ret |-> Raises("SentenceProducer"), obs |-> o1]
            ELSE
            LET S2 == [g.S EXCEPT !.evaluator[g.model.id] = max_len]
                o2 == [o1 EXCEPT !.window = IF wraps THEN max_len ELSE 0,
                                 !.stride = S2.evaluator[g.model.id],
                                 !.evalCalls = 1,
                                 !.exc = env.exc]
            IN  [S |-> S2, obs |-> o2,
                 ret |-> CASE env.exc = None -> Returns("evals")
                           [] env.exc = "ValueError" -> Returns(None)
                           [] OTHER -> Raises(env.exc)]

model_record_sequence(S, name, sequences, env) ==
    LET g == _get_model(S, name, FALSE)
        o == Resolved(S, g)
    IN  IF g.exc # None THEN [S |-> g.S, ret |-> Raises(g.exc), obs |-> o]
        ELSE IF g.model = NoModel THEN [S |-> g.S, ret |-> Returns(None), obs |-> o]
        ELSE IF name \notin DOMAIN g.S.train_configs
        THEN [S |-> g.S, ret |-> Raises("KeyError"), obs |-> o]
        ELSE IF ~sequences.iterable
        THEN [S |-> g.S, ret |-> Raises("TypeError"), obs |-> o]
        ELSE IF sequences.lens = << >>
        THEN [S |-> g.S, ret |-> Raises("ValueError"), obs |-> o]
        ELSE
        LET max_len == Max(sequences.lens)
            o1 == [o EXCEPT !.recorder = "BufferRecorder"]
            wraps == sequences.kind # "Feeder"
        IN  IF wraps /\ env.wrap_fails
            THEN [S |-> g.S, ret |-> Raises("SentenceProducer"), obs |-> o1]
            ELSE
            LET S2 == [g.S EXCEPT !.evaluator[g.model.id] = max_len]
                o2 == [o1 EXCEPT !.window = IF wraps THEN max_len ELSE 0,
                                 !.stride = S2.evaluator[g.model.id],
                                 !.evalCalls = 1,
                                 !.exc = env.exc]
            IN  [S |-> S2, obs |-> o2,
                 ret |-> CASE env.exc = None -> Returns("evals")
                           [] env.exc = "ValueError" -> Returns(None)
                           [] OTHER -> Returns(None)]

\* Mutant: the partition is checked before the model is resolved.
model_record_default_asserts_first(S, name, dataset, env) ==
    LET g == _get_model(S, name, FALSE)
        o == Resolved(S, g)
    IN  IF dataset \notin {"test", "train", "valid"}
        THEN [S |-> S, ret |-> Raises("AssertionError"), obs |-> NoObs]
        ELSE IF g.exc # None THEN [S |-> g.S, ret |-> Raises(g.exc), obs |-> o]
        ELSE IF g.model = NoModel THEN [S |-> g.S, ret |-> Returns(None), obs |-> o]
        ELSE IF name \notin DOMAIN g.S.train_configs
        THEN [S |-> g.S, ret |-> Raises("KeyError"), obs |-> o]
        ELSE IF dataset \notin {"test", "train", "valid"}
        THEN [S |-> g.S, ret |-> Raises("AssertionError"), obs |-> o]
        ELSE
        LET config == g.S.train_configs[name]
            o1 == [o EXCEPT !.recorder = "StateRecorder"]
        IN  IF env.wrap_fails
            THEN [S |-> g.S, ret |-> Raises("pour_data"), obs |-> o1]
            ELSE
            LET S2 == [g.S EXCEPT !.evaluator[g.model.id] = config.num_steps]
                o2 == [o1 EXCEPT !.window = config.num_steps,
                                 !.stride = S2.evaluator[g.model.id],
                                 !.evalCalls = 1,
                                 !.exc = env.exc]
            IN  [S |-> S2, obs |-> o2,
                 ret |-> IF env.exc = None THEN Returns("True") ELSE Returns("False")]

\* Mutant: the partition is not checked.
model_record_default_no_assert(S, name, dataset, env) ==
    LET g == _get_model(S, name, FALSE)
        o == Resolved(S, g)
    IN  IF g.exc # None THEN [S |-> g.S, ret |-> Raises(g.exc), obs |-> o]
        ELSE IF g.model = NoModel THEN [S |-> g.S, ret |-> Returns(None), obs |-> o]
        ELSE IF name \notin DOMAIN g.S.train_configs
        THEN [S |-> g.S, ret |-> Raises("KeyError"), obs |-> o]
        ELSE IF FALSE
        THEN [S |-> g.S, ret |-> Raises("AssertionError"), obs |-> o]
        ELSE
        LET config == g.S.train_configs[name]
            o1 == [o EXCEPT !.recorder = "StateRecorder"]
        IN  IF env.wrap_fails
            THEN [S |-> g.S, ret |-> Raises("pour_data"), obs |-> o1]
            ELSE
            LET S2 == [g.S EXCEPT !.evaluator[g.model.id] = config.num_steps]
                o2 == [o1 EXCEPT !.window = config.num_steps,
                                 !.stride = S2.evaluator[g.model.id],
                                 !.evalCalls = 1,
                                 !.exc = env.exc]
            IN  [S |-> S2, obs |-> o2,
                 ret |-> IF env.exc = None THEN Returns("True") ELSE Returns("False")]

\* Mutant: the failure branch falls through to the success return.
model_record_default_true_on_failure(S, name, dataset, env) ==
    LET g == _get_model(S, name, FALSE)
        o == Resolved(S, g)
    IN  IF g.exc # None THEN [S |-> g.S, ret |-> Raises(g.exc), obs |-> o]
        ELSE IF g.model = NoModel THEN [S |-> g.S, ret |-> Returns(None), obs |-> o]
        ELSE IF name \notin DOMAIN g.S.train_configs
        THEN [S |-> g.S, ret |-> Raises("KeyError"), obs |-> o]
        ELSE IF dataset \notin {"test", "train", "valid"}
        THEN [S |-> g.S, ret |-> Raises("AssertionError"), obs |-> o]
        ELSE
        LET config == g.S.train_configs[name]
            o1 == [o EXCEPT !.recorder = "StateRecorder"]
        IN  IF env.wrap_fails
            THEN [S |-> g.S, ret |-> Raises("pour_data"), obs |-> o1]
            ELSE
            LET S2 == [g.S EXCEPT !.evaluator[g.model.id] = config.num_steps]
                o2 == [o1 EXCEPT !.window = config.num_steps,
                                 !.stride = S2.evaluator[g.model.id],
                                 !.evalCalls = 1,
                                 !.exc = env.exc]
            IN  [S |-> S2, obs |-> o2,
                 ret |-> IF env.exc = None THEN Returns("True") ELSE Returns("True")]

\* Mutant: evaluator.record_every is not set before streaming.
model_record_default_keeps_stride(S, name, dataset, env) ==
    LET g == _get_model(S, name, FALSE)
        o == Resolved(S, g)
    IN  IF g.exc # None THEN [S |-> g.S, ret |-> Raises(g.exc), obs |-> o]
        ELSE IF g.model = NoModel THEN [S |-> g.S, ret |-> Returns(None), obs |-> o]
        ELSE IF name \notin DOMAIN g.S.train_configs
        THEN [S |-> g.S, ret |-> Raises("KeyError"), obs |-> o]
        ELSE IF dataset \notin {"test", "train", "valid"}
        THEN [S |-> g.S, ret |-> Raises("AssertionError"), obs |-> o]
        ELSE
        LET config == g.S.train_configs[name]
            o1 == [o EXCEPT !.recorder = "StateRecorder"]
        IN  IF env.wrap_fails
            THEN [S |-> g.S, ret |-> Raises("pour_data"), obs |-> o1]
            ELSE
            LET S2 == g.S
                o2 == [o1 EXCEPT !.window = config.num_steps,
                                 !.stride = S2.evaluator[g.model.id],
                                 !.evalCalls = 1,
                                 !.exc = env.exc]
            IN  [S |-> S2, obs |-> o2,
                 ret |-> IF env.exc = None THEN Returns("True") ELSE Returns("False")]

model_record_default(S, name, dataset, env) ==
    LET g == _get_model(S, name, FALSE)
        o == Resolved(S, g)
    IN  IF g.exc # None THEN [S |-> g.S, ret |-> Raises(g.exc), obs |-> o]
        ELSE IF g.model = NoModel THEN [S |-> g.S, ret |-> Returns(None), obs |-> o]
        ELSE IF name \notin DOMAIN g.S.train_configs
        THEN [S |-> g.S, ret |-> Raises("KeyError"), obs |-> o]
        ELSE IF dataset \notin {"test", "train", "valid"}
        THEN [S |-> g.S, ret |-> Raises("AssertionError"), obs |-> o]
        ELSE
        LET config == g.S.train_configs[name]
            o1 == [o EXCEPT !.recorder = "StateRecorder"]
        IN  IF env.wrap_fails
            THEN [S |-> g.S, ret |-> Raises("pour_data"), obs |-> o1]
            ELSE
            LET S2 == [g.S EXCEPT !.evaluator[g.model.id] = config.num_steps]
                o2 == [o1 EXCEPT !.window = config.num_steps,
                                 !.stride = S2.evaluator[g.model.id],
                                 !.evalCalls = 1,
                                 !.exc = env.exc]
            IN  [S |-> S2, obs |-> o2,
                 ret |-> IF env.exc = None THEN Returns("True") ELSE Returns("False")]

\* The operations that resolve the model and hand the work to one collaborator.
Delegate(S, name, collab, value) ==
    LET g == _get_model(S, name, FALSE)
        o == Resolved(S, g)
    IN  IF g.exc # None THEN [S |-> g.S, ret |-> Raises(g.exc), obs |-> o]
        ELSE IF g.model = NoModel THEN [S |-> g.S, ret |-> Returns(None), obs |-> o]
        ELSE IF collab # None /\ name \notin DOMAIN g.S.train_configs
        THEN [S |-> g.S, ret |-> Raises("KeyError"), obs |-> o]
        ELSE [S |-> g.S, ret |-> Returns(value), obs |-> [o EXCEPT !.collab = collab]]

\* Mutant: the generation leaves its step count in the evaluator.
model_generate_sets_stride(S, name) ==
    LET g == _get_model(S, name, FALSE)
        o == Resolved(S, g)
    IN  IF g.exc # None THEN [S |-> g.S, ret |-> Raises(g.exc), obs |-> o]
        ELSE IF g.model = NoModel THEN [S |-> g.S, ret |-> Returns(None), obs |-> o]
        ELSE [S |-> [g.S EXCEPT !.evaluator[g.model.id] = 0],
              ret |-> Returns("tree"), obs |-> [o EXCEPT !.collab = "generate"]]

model_generate(S, name) ==
    LET g == _get_model(S, name, FALSE)
        o == Resolved(S, g)
    IN  IF g.exc # None THEN [S |-> g.S, ret |-> Raises(g.exc), obs |-> o]
        ELSE IF g.model = NoModel THEN [S |-> g.S, ret |-> Returns(None), obs |-> o]
        ELSE [S |-> g.S, ret |-> Returns("tree"), obs |-> [o EXCEPT !.collab = "generate"]]

model_sentences_to_ids(S, name) ==
    LET g == _get_model(S, name, FALSE)
        o == Resolved(S, g)
    IN  IF g.exc # None THEN [S |-> g.S, ret |-> Raises(g.exc), obs |-> o]
        ELSE IF g.model = NoModel THEN [S |-> g.S, ret |-> Returns(None), obs |-> o]
        ELSE [S |-> g.S, ret |-> Returns("ids"),
              obs |-> [o EXCEPT !.collab = "get_id_from_word"]]

model_state_signature(S, name) ==
    Delegate(S, name, "get_state_signature", "signature")

model_strength(S, name) ==
    Delegate(S, name, "get_empirical_strength", "strength")

\* Mutant: the method is not looked at.
model_state_projection_any_method(S, name, method) ==
    LET r == Delegate(S, name, "get_tsne_projection", "solution")
    IN  [r EXCEPT !.obs.method = method]

model_state_projection(S, name, method) ==
    LET r == IF method = "tsne"
             THEN Delegate(S, name, "get_tsne_projection", "solution")
             ELSE LET d == Delegate(S, name, "len", None)
                  IN  [d EXCEPT !.obs.collab = None]
    IN  [r EXCEPT !.obs.method = method]

----------------------------------------------------------------------------
(* The state machine: serialized public calls, and the environment creating *)
(* checkpoint directories.                                                   *)

\* No projection packaged.
NoProj == [layer |-> 0, layer_num |-> 0, points |-> 0, done |-> FALSE,
           exc |-> None, labels |-> << >>, states_num |-> << >>]

\* The callers that share one ModelManager with no lock.
Callers == {1, 2}

NoConfig == [dataset |-> None, num_steps |-> 0]

\* A caller outside any call.
Idle == [pc |-> "idle", name |-> None, model |-> NoModel, config |-> NoConfig,
         result |-> None]

\* The token ids of the model's vocabulary.
Vocab == {1, 2, 3}

\* No generation is running.
NoGen == [phase |-> "idle"]

OthersInit ==
    /\ proj = NoProj
    /\ callers = [c \in Callers |-> Idle]
    /\ gen = NoGen

Init ==
    /\ OthersInit
    /\ _models = << >>
    /\ _train_configs = << >>
    /\ evaluator = << >>
    /\ restored = {}
    /\ checkpoint = {}
    /\ calls = NoCalls
    /\ last = [op |-> "__init__", name |-> None, dataset |-> None,
               sequences |-> Summary(NoSequences), ret |-> Returns(None), obs |-> NoObs]

\* Whether resolving `name` now gives a handle: the collaborators of a recording
\* call are reached, and so choose what they do, only then.
Resolves(name) ==
    \/ name \in DOMAIN _models
    \/ /\ name \in DOMAIN _available_models
       /\ get_path(_model_dir, _available_models[name].config) \in checkpoint

Unreached == [wrap_fails |-> FALSE, exc |-> None]

Reached(name) == IF Resolves(name) THEN Collaborators ELSE {Unreached}

\* A call that would build a model is taken only while builds remain.
CanCall(name) ==
    \/ name \in DOMAIN _models
    \/ name \notin DOMAIN _available_models
    \/ calls.built < MaxBuilds

Done(op, name, dataset, sequences, res) ==
  \E r \in {res} :
    /\ _models' = r.S.models
    /\ _train_configs' = r.S.train_configs
    /\ evaluator' = r.S.evaluator
    /\ restored' = r.S.restored
    /\ checkpoint' = r.S.checkpoint
    /\ calls' = r.S.calls
    /\ last' = [op |-> op, name |-> name, dataset |-> dataset,
                sequences |-> Summary(sequences), ret |-> r.ret, obs |-> r.obs]
    /\ UNCHANGED others

GetConfigFilename ==
    \E name \in Names :
        Done("get_config_filename", name, None, NoSequences,
             get_config_filename(State, name))

ModelGenerate ==
    \E name \in Names :
        /\ CanCall(name)
        /\ Done("model_generate", name, None, NoSequences,
                model_generate(State, name))

ModelRecordSequence ==
    \E name \in Names, sequences \in SequenceInputs : \E env \in Reached(name) :
        /\ CanCall(name)
        /\ Done("model_record_sequence", name, None, sequences,
                model_record_sequence(State, name, sequences, env))

ModelRecordDefault ==
    \E name \in Names, dataset \in Partitions : \E env \in Reached(name) :
        /\ CanCall(name)
        /\ Done("model_record_default", name, dataset, NoSequences,
                model_record_default(State, name, dataset, env))

ModelSentencesToIds ==
    \E name \in Names :
        /\ CanCall(name)
        /\ Done("model_sentences_to_ids", name, None, NoSequences,
                model_sentences_to_ids(State, name))

ModelStateSignature ==
    \E name \in Names :
        /\ CanCall(name)
        /\ Done("model_state_signature", name, None, NoSequences,
                model_state_signature(State, name))

ModelStrength ==
    \E name \in Names :
        /\ CanCall(name)
        /\ Done("model_strength", name, None, NoSequences,
                model_strength(State, name))

ModelStateProjection ==
    \E name \in Names, method \in {"tsne", "pca"} :
        /\ CanCall(name)
        /\ Done("model_state_projection", name, None, NoSequences,
                model_state_projection(State, name, method))

\* The environment: a training run leaves the checkpoint directory of a model.
CheckpointCreated ==
    \E name \in Names \cap DOMAIN _available_models :
        /\ checkpoint' = checkpoint \cup
                {get_path(_model_dir, _available_models[name].config)}
        /\ UNCHANGED <<_models, _train_configs, evaluator, restored, calls, last>>
        /\ UNCHANGED others

Next ==
    \/ GetConfigFilename
    \/ ModelGenerate
    \/ ModelRecordSequence
    \/ ModelRecordDefault
    \/ ModelSentencesToIds
    \/ ModelStateSignature
    \/ ModelStrength
    \/ ModelStateProjection
    \/ CheckpointCreated

Spec == Init /\ [][Next]_vars

----------------------------------------------------------------------------
(* The cache resolved directly, in training mode too: _get_model(name, train) *)
(* as a caller inside the package may call it, among the public calls.        *)

\* _get_model as a call of its own: what it returns and what it did.
resolve(S, name, train) ==
    LET g == _get_model(S, name, train)
    IN  [S |-> g.S, obs |-> Resolved(S, g),
         ret |-> IF g.exc # None THEN Raises(g.exc)
                 ELSE IF g.model = NoModel THEN Returns(None)
                 ELSE Returns("model")]

GetModel ==
    \E name \in Names, train \in BOOLEAN :
        /\ CanCall(name)
        /\ Done(IF train THEN "_get_model(train=True)" ELSE "_get_model(train=False)",
                name, None, NoSequences, resolve(State, name, train))

SpecTrain == Init /\ [][Next \/ GetModel]_vars

----------------------------------------------------------------------------
(* Two callers on one ModelManager, interleaved statement by statement: each  *)
(* runs the common opening of the public operations that read the paired      *)
(* configuration (model = self._get_model(name); if model is None: return     *)
(* None; config = self._train_configs[name]).  A position is the line about   *)
(* to be executed.                                                            *)

At(c, pc) == callers[c].pc = pc

Goto(c, pc) == callers' = [callers EXCEPT ![c].pc = pc]

Shared == <<_models, _train_configs, evaluator, restored, checkpoint, calls>>

\* Line 103 (130, 154, 163, 173): the call begins.
Call(c) ==
    /\ At(c, "idle")
    /\ \E name \in Names : callers' = [callers EXCEPT ![c] = [Idle EXCEPT !.pc = "52", !.name = name]]
    /\ UNCHANGED <<Shared, last, proj, gen>>

\* Line 52: if name in self._models
L52(c) ==
    /\ At(c, "52")
    /\ Goto(c, IF callers[c].name \in DOMAIN _models THEN "53" ELSE "59")
    /\ UNCHANGED <<Shared, last, proj, gen>>

\* Line 53: return self._models[name]
L53(c) ==
    /\ At(c, "53")
    /\ callers' = [callers EXCEPT ![c].pc = "104", ![c].model = _models[callers[c].name]]
    /\ UNCHANGED <<Shared, last, proj, gen>>

\* Lines 59, 81-82 and 56: a name outside the catalog gives flag False, and None.
L59(c) ==
    /\ At(c, "59")
    /\ Goto(c, IF callers[c].name \in DOMAIN _available_models THEN "61" ELSE "104")
    /\ UNCHANGED <<Shared, last, proj, gen>>

\* Lines 60-72: the model is built and given its generator and evaluator; the
\* handle and the configuration are the caller's own until line 77.
L61(c) ==
    /\ At(c, "61")
    /\ calls.built < MaxBuilds
    /\ LET name == callers[c].name
           b == build_model(get_path(_config_dir, _available_models[name].config),
                            calls.built)
       IN  /\ callers' = [callers EXCEPT ![c].pc = "75", ![c].model = b.model,
                                         ![c].config = b.train_config]
           /\ calls' = [calls EXCEPT !.built = @ + 1, !.build[name] = @ + 1,
                                     !.add_generator[name] = @ + 1,
                                     !.add_evaluator[name] = @ + 1]
           /\ evaluator' = Put(evaluator, b.model.id, add_evaluator(1, 1, 100, TRUE))
    /\ UNCHANGED <<_models, _train_configs, restored, checkpoint, last, proj, gen>>

\* Lines 73-75: assert_path_exists raises out of the call.
L75(c) ==
    /\ At(c, "75")
    /\ IF path_exists(State, get_path(_model_dir, callers[c].model.name))
       THEN /\ Goto(c, "76")
            /\ UNCHANGED calls
       ELSE /\ callers' = [callers EXCEPT ![c] = [Idle EXCEPT !.result = "assert_path_exists"]]
            /\ calls' = [calls EXCEPT !.load_failed[callers[c].name] = @ + 1]
    /\ UNCHANGED <<_models, _train_configs, evaluator, restored, checkpoint, last, proj, gen>>

\* Line 76: model.restore()
L76(c) ==
    /\ At(c, "76")
    /\ Goto(c, "77")
    /\ restored' = restored \cup {callers[c].model.id}
    /\ calls' = [calls EXCEPT !.restore[callers[c].name] = @ + 1]
    /\ UNCHANGED <<_models, _train_configs, evaluator, checkpoint, last, proj, gen>>

\* Line 77: self._models[name] = model
L77(c) ==
    /\ At(c, "77")
    /\ Goto(c, "78")
    /\ _models' = Put(_models, callers[c].name, callers[c].model)
    /\ UNCHANGED <<_train_configs, evaluator, restored, checkpoint, calls, last, proj, gen>>

\* Mutant: line 78 stores nothing.
L78_skips(c) ==
    /\ At(c, "78")
    /\ Goto(c, "56")
    /\ UNCHANGED <<Shared, last, proj, gen>>

\* Line 78: self._train_configs[name] = train_config
L78(c) ==
    /\ At(c, "78")
    /\ Goto(c, "56")
    /\ _train_configs' = Put(_train_configs, callers[c].name, callers[c].config)
    /\ UNCHANGED <<_models, evaluator, restored, checkpoint, calls, last, proj, gen>>

\* Lines 79 and 56: return self._models[name] if flag else None
L56(c) ==
    /\ At(c, "56")
    /\ callers' = [callers EXCEPT ![c].pc = "104", ![c].model = _models[callers[c].name]]
    /\ UNCHANGED <<Shared, last, proj, gen>>

\* Lines 104-105: if model is None: return None
L104(c) ==
    /\ At(c, "104")
    /\ IF callers[c].name \in DOMAIN _available_models
       THEN Goto(c, "106")
       ELSE callers' = [callers EXCEPT ![c] = [Idle EXCEPT !.result = "None"]]
    /\ UNCHANGED <<Shared, last, proj, gen>>

\* Line 106: config = self._train_configs[name], a KeyError when the name is
\* not a key.  The call is followed no further.
L106(c) ==
    /\ At(c, "106")
    /\ LET name == callers[c].name
       IN  callers' = [callers EXCEPT ![c] =
               [Idle EXCEPT !.name = name, !.model = callers[c].model,
                            !.result = IF name \in DOMAIN _train_configs
                                       THEN "config" ELSE "KeyError"]]
    /\ UNCHANGED <<Shared, last, proj, gen>>

ConcNext ==
    \/ \E c \in Callers :
          \/ Call(c)
          \/ L52(c)
          \/ L53(c)
          \/ L59(c)
          \/ L61(c)
          \/ L75(c)
          \/ L76(c)
          \/ L77(c)
          \/ L78(c)
          \/ L56(c)
          \/ L104(c)
          \/ L106(c)
    \/ CheckpointCreated

SpecConc == Init /\ [][ConcNext]_vars

----------------------------------------------------------------------------
(* The packaging of a projection (model_state_projection, method 'tsne'): a  *)
(* specification of its own, over every layer index, layer count and number  *)
(* of projected points.                                                      *)

\* Python's list[i] = v: a negative index counts from the end; an index outside
\* the list raises IndexError (ok = FALSE).
SetItem(list, i, v) ==
    LET k == IF i < 0 THEN i + Len(list) ELSE i
    IN  IF k < 0 \/ k >= Len(list)
        THEN [ok |-> FALSE, list |-> list]
        ELSE [ok |-> TRUE, list |-> [list EXCEPT ![k + 1] = v]]

\* Lines 180-182, for a solution of `points` rows.
pack_projection(layer, layer_num, points) ==
    LET labels == [i \in 1..points |-> IF layer < 0 THEN layer_num - 1 ELSE layer]
        states_num == [i \in 1..layer_num |-> 0]
        set == SetItem(states_num, layer, points)
    IN  IF set.ok
        THEN [exc |-> None, labels |-> labels, states_num |-> set.list]
        ELSE [exc |-> "IndexError", labels |-> << >>, states_num |-> << >>]

ProjInputs ==
    [layer : (0 - MaxLayers - 1)..MaxLayers, layer_num : 1..MaxLayers,
     points : 0..MaxPoints]

ChooseProjection ==
    /\ proj = NoProj
    /\ \E i \in ProjInputs :
          proj' = [NoProj EXCEPT !.layer = i.layer, !.layer_num = i.layer_num,
                                 !.points = i.points]
    /\ UNCHANGED <<manager, callers, gen>>

PackProjection ==
    /\ proj # NoProj
    /\ ~proj.done
    /\ \E r \in {pack_projection(proj.layer, proj.layer_num, proj.points)} :
          proj' = [proj EXCEPT !.done = TRUE, !.exc = r.exc, !.labels = r.labels,
                               !.states_num = r.states_num]
    /\ UNCHANGED <<manager, callers, gen>>

ProjNext == ChooseProjection \/ PackProjection

SpecProj == Init /\ [][ProjNext]_vars

----------------------------------------------------------------------------
(* The Branching Generator behind model_generate: model.generate(seeds, None, *)
(* max_branch, accum_cond_prob, min_cond_prob, min_prob, max_step,            *)
(* neg_word_ids), a tree search over the model's next-token distribution.     *)
(* Probabilities are counted in units of 1/Scale; a cumulative probability at *)
(* depth n is a numerator over Scale^n, so that products are exact.  The root *)
(* of the tree stands for the primed seeds.                                   *)

RECURSIVE Pow(_, _)
Pow(b, n) == IF n = 0 THEN 1 ELSE b * Pow(b, n - 1)

RECURSIVE Sum(_, _)
Sum(f, S) ==
    IF S = {} THEN 0
    ELSE LET x == CHOOSE y \in S : TRUE IN f[x] + Sum(f, S \ {x})

\* The next-token distributions a model may have: each token's probability,
\* the probabilities summing to one.
Dists == {d \in [Vocab -> 0..Scale] : Sum(d, Vocab) = Scale}

\* The model's recurrent state after a path of tokens, as the distribution it
\* gives for the next token: the model's base distribution, turned by the last
\* token of the path.
Prob(d, path) ==
    LET shift == IF path = <<>> THEN 0 ELSE path[Len(path)]
        V == Cardinality(Vocab)
    IN  [v \in Vocab |-> d[((v - 1 + shift) % V) + 1]]

\* Mutant: the probabilities of the remaining candidates are renormalized.
Considered_renormalizes(p, neg_word_ids) ==
    LET left == Sum(p, Vocab \ neg_word_ids)
    IN  [v \in Vocab \ neg_word_ids |->
            IF left = 0 THEN p[v] ELSE (p[v] * Scale) \div left]

\* Step 2: the tokens of neg_word_ids are out of consideration, the others
\* keep their probabilities.
Considered(p, neg_word_ids) == [v \in Vocab \ neg_word_ids |-> p[v]]

\* Step 3: the candidates by descending conditional probability (equal
\* probabilities by ascending token id).
RECURSIVE Rank(_, _)
Rank(p, S) ==
    IF S = {} THEN <<>>
    ELSE LET best == CHOOSE v \in S :
                         \A w \in S : p[v] > p[w] \/ (p[v] = p[w] /\ v <= w)
         IN  <<best>> \o Rank(p, S \ {best})

\* The cumulative path probability num / Scale^depth is at least min_prob.
AtLeastMinProb(num, depth, min_prob) == num * Scale >= min_prob * Pow(Scale, depth)

\* Mutant: the budget is tested after the candidate is taken.
RECURSIVE Select_tests_sum_after(_, _, _, _, _, _)
Select_tests_sum_after(ranked, p, parent, par, i, acc) ==
    IF i > Len(ranked) THEN acc
    ELSE LET v == ranked[i]
             cum == p[v] * parent.cum
         IN  IF acc.used >= par.max_branch THEN acc
             ELSE IF acc.sum > par.accum_cond_prob THEN acc
             ELSE IF p[v] < par.min_cond_prob THEN acc
             ELSE IF ~AtLeastMinProb(cum, parent.depth + 1, par.min_prob)
                  THEN Select_tests_sum_after(ranked, p, parent, par, i + 1,
                              [acc EXCEPT !.dropped = @ + 1])
             ELSE Select_tests_sum_after(ranked, p, parent, par, i + 1,
                         [acc EXCEPT !.selected = Append(@, v), !.used = @ + 1,
                                     !.sum = @ + p[v]])

\* Mutant: a candidate under min_prob takes a branch slot.
RECURSIVE Select_drop_takes_slot(_, _, _, _, _, _)
Select_drop_takes_slot(ranked, p, parent, par, i, acc) ==
    IF i > Len(ranked) THEN acc
    ELSE LET v == ranked[i]
             cum == p[v] * parent.cum
         IN  IF acc.used >= par.max_branch THEN acc
             ELSE IF acc.sum + p[v] > par.accum_cond_prob THEN acc
             ELSE IF p[v] < par.min_cond_prob THEN acc
             ELSE IF ~AtLeastMinProb(cum, parent.depth + 1, par.min_prob)
                  THEN Select_drop_takes_slot(ranked, p, parent, par, i + 1,
                              [acc EXCEPT !.dropped = @ + 1, !.used = @ + 1])
             ELSE Select_drop_takes_slot(ranked, p, parent, par, i + 1,
                         [acc EXCEPT !.selected = Append(@, v), !.used = @ + 1,
                                     !.sum = @ + p[v]])

\* Step 4: down the ranked list until max_branch branches are selected, or the
\* running sum of the selected conditional probabilities would exceed
\* accum_cond_prob, or the next candidate is under min_cond_prob; a candidate
\* whose cumulative path probability is under min_prob is dropped and takes no
\* branch slot.  acc: the tokens selected, the slots used, the running sum and
\* the candidates dropped so far.
RECURSIVE Select(_, _, _, _, _, _)
Select(ranked, p, parent, par, i, acc) ==
    IF i > Len(ranked) THEN acc
    ELSE LET v == ranked[i]
             cum == p[v] * parent.cum
         IN  IF acc.used >= par.max_branch THEN acc
             ELSE IF acc.sum + p[v] > par.accum_cond_prob THEN acc
             ELSE IF p[v] < par.min_cond_prob THEN acc
             ELSE IF ~AtLeastMinProb(cum, parent.depth + 1, par.min_prob)
                  THEN Select(ranked, p, parent, par, i + 1,
                              [acc EXCEPT !.dropped = @ + 1])
             ELSE Select(ranked, p, parent, par, i + 1,
                         [acc EXCEPT !.selected = Append(@, v), !.used = @ + 1,
                                     !.sum = @ + p[v]])

NoneSelected == [selected |-> <<>>, used |-> 0, sum |-> 0, dropped |-> 0]

\* Steps 1-4 at one node: the selection among the model's next tokens.
Branches(d, par, node) ==
    LET p == Considered(Prob(d, node.path), par.neg_word_ids)
    IN  Select(Rank(p, DOMAIN p), p, node, par, 1, NoneSelected)

\* Step 5: a selected token as a child Generation Node.
Child(d, par, node, v) ==
    LET p == Considered(Prob(d, node.path), par.neg_word_ids)
    IN  [path |-> Append(node.path, v), token |-> v, cond |-> p[v],
         cum |-> p[v] * node.cum, depth |-> node.depth + 1]

\* The node of the primed seeds.
Root == [path |-> <<>>, token |-> 0, cond |-> Scale, cum |-> 1, depth |-> 0]

\* The parameters a caller may pass.
Budgets == {0, Scale \div 2, Scale - 1, Scale}
Thresholds == {0, 1, 2}
Neglected == {{}} \cup {{v} : v \in Vocab} \cup {{1, 2}}

Params ==
    [max_branch : 1..MaxBranch, accum_cond_prob : Budgets,
     min_cond_prob : Thresholds, min_prob : Thresholds,
     max_step : 0..MaxStep, neg_word_ids : Neglected]

\* generate is called: the search starts at the seeds' node.
Generate ==
    /\ gen.phase = "idle"
    /\ \E d \in Dists, par \in Params :
        gen' = [phase |-> "search", d |-> d, par |-> par, nodes |-> {Root},
                frontier |-> <<Root>>, expanded |-> {}]
    /\ UNCHANGED <<manager, proj, callers>>

\* Mutant: a node at depth max_step is expanded too.
Grows_one_too_deep(node, par) == node.depth <= par.max_step

\* A node is expanded while it is above depth max_step.
Grows(node, par) == node.depth < par.max_step

\* One expansion round: the first node of the frontier gets its children, and
\* they join the frontier.
Expand ==
    /\ gen.phase = "search"
    /\ gen.frontier # <<>>
    /\ LET node == Head(gen.frontier)
           b == IF Grows(node, gen.par) THEN Branches(gen.d, gen.par, node)
                ELSE NoneSelected
           children == [i \in 1..Len(b.selected) |->
                            Child(gen.d, gen.par, node, b.selected[i])]
       IN  gen' = [gen EXCEPT
                     !.nodes = @ \cup {children[i] : i \in 1..Len(children)},
                     !.frontier = children \o Tail(@),
                     !.expanded = @ \cup {[path |-> node.path, used |-> b.used,
                                           dropped |-> b.dropped,
                                           grown |-> Grows(node, gen.par)]}]
    /\ UNCHANGED <<manager, proj, callers>>

\* No node is left to expand: generate returns the tree.
Return ==
    /\ gen.phase = "search"
    /\ gen.frontier = <<>>
    /\ gen' = [gen EXCEPT !.phase = "done"]
    /\ UNCHANGED <<manager, proj, callers>>

GenNext == Generate \/ Expand \/ Return

SpecGen == Init /\ [][GenNext]_vars

----------------------------------------------------------------------------
(* Properties *)

Catalog == DOMAIN _available_models

ValidPartitions == {"train", "valid", "test"}

\* The public operations that resolve a model.
ResolvingOps ==
    {"model_generate", "model_record_sequence", "model_record_default",
     "model_sentences_to_ids", "model_state_signature", "model_strength",
     "model_state_projection"}

CheckpointOf(name) == get_path(_model_dir, _available_models[name].config)

Cached(name) == IF name \in DOMAIN _models THEN 1 ELSE 0

NoStreaming(o) ==
    o.recorder = None /\ o.window = 0 /\ o.evalCalls = 0 /\ o.stride = 0

\* C1: a public operation called with a name outside the catalog returns None,
\* does not call the model builder and leaves _models and _train_configs as
\* they were, whatever its other arguments and whatever ran before.
C1_UnknownNameReturnsNone ==
    [][last'.name \in Names \ Catalog =>
        /\ last'.ret = Returns(None)
        /\ last'.obs.loads = 0
        /\ calls' = calls
        /\ _models' = _models
        /\ _train_configs' = _train_configs]_vars

\* C1 witness: with a model already cached, model_record_default is called with
\* an unknown name and a partition outside the three, and returns None.
C1_Witness ==
    /\ last.op = "model_record_default"
    /\ last.name \notin Catalog
    /\ last.dataset \notin ValidPartitions
    /\ last.ret = Returns(None)
    /\ DOMAIN _models # {}

\* C2: once a name is cached, every further resolution of it gives the cached
\* handle and calls neither build_model, add_generator, add_evaluator nor
\* restore; when the first resolution of the name was the one that succeeded,
\* each of these was called exactly once for it.
C2_CachedResolutionIdempotent ==
    /\ [](\A n \in DOMAIN _models :
            calls.load_failed[n] = 0 =>
                /\ calls.build[n] = 1
                /\ calls.add_generator[n] = 1
                /\ calls.add_evaluator[n] = 1
                /\ calls.restore[n] = 1)
    /\ [][\A n \in DOMAIN _models :
            /\ n \in DOMAIN _models'
            /\ _models'[n] = _models[n]
            /\ calls'.build[n] = calls.build[n]
            /\ calls'.add_generator[n] = calls.add_generator[n]
            /\ calls'.add_evaluator[n] = calls.add_evaluator[n]
            /\ calls'.restore[n] = calls.restore[n]
            /\ (last' # last /\ last'.name = n /\ last'.op \in ResolvingOps =>
                    last'.obs.model = _models[n] /\ last'.obs.loads = 0)]_vars

\* C2 witness: a recording call resolved a name from the cache (no load), the
\* name having been built once.
C2_Witness ==
    /\ last.op = "model_record_default"
    /\ last.name \in DOMAIN _models
    /\ last.obs.loads = 0
    /\ last.obs.model = _models[last.name]
    /\ calls.build[last.name] = 1

\* C3 as stated: build_model and restore run at most once per name, also when
\* a load fails and the name is asked for again.
C3_AtMostOneBuildPerName ==
    \A n \in Names : calls.build[n] <= 1 /\ calls.restore[n] <= 1

\* C3 amended: a model is built once by every load attempt, so once by the
\* load that caches the name and once by each earlier attempt that failed on the
\* missing checkpoint directory; restore runs only in the load that caches the
\* name, so at most once per name; nothing is built outside the load path.
C3_BuildPerLoadAttempt ==
    /\ \A n \in Names :
        /\ calls.build[n] = calls.load_failed[n] + Cached(n)
        /\ calls.restore[n] = Cached(n)
        /\ calls.add_generator[n] = calls.build[n]
        /\ calls.add_evaluator[n] = calls.build[n]
        /\ n \notin Catalog => calls.build[n] = 0
    /\ last.obs.loads <= 1

\* C3 witness: a name was built twice: a load failed, then a load succeeded.
C3_Witness ==
    \E n \in DOMAIN _models : calls.build[n] = 2 /\ calls.load_failed[n] = 1

\* C4: a name is a key of _models exactly when it is a key of _train_configs,
\* every cached name is in the catalog, and every cached name has its own one
\* handle, also after failed loads.
C4_CachePairing ==
    /\ DOMAIN _models = DOMAIN _train_configs
    /\ DOMAIN _models \subseteq Catalog
    /\ \A n \in DOMAIN _models :
        /\ _models[n].id \in DOMAIN evaluator
        /\ _models[n].name = _available_models[n].config
        /\ _train_configs[n].dataset = _available_models[n].config
        /\ \A m \in DOMAIN _models : m # n => _models[m].id # _models[n].id

\* C4 witness: one name is cached and a load of another name has failed.
C4_Witness ==
    \E n \in DOMAIN _models : \E m \in Names \ DOMAIN _models :
        calls.load_failed[m] > 0

\* C5: when a catalog name that is not cached is resolved and its checkpoint
\* directory does not exist, the public operation raises the error of
\* assert_path_exists, restore is not called and the cache is left as it was.
C5_MissingCheckpointFatal ==
    [][(/\ last'.op \in ResolvingOps
        /\ last'.name \in Catalog
        /\ last'.name \notin DOMAIN _models
        /\ CheckpointOf(last'.name) \notin checkpoint) =>
        /\ last'.ret = Raises("assert_path_exists")
        /\ last'.obs.model = NoModel
        /\ NoStreaming(last'.obs)
        /\ calls'.restore = calls.restore
        /\ restored' = restored
        /\ _models' = _models
        /\ _train_configs' = _train_configs]_vars

\* C5 witness: model_generate raised on the missing checkpoint directory while
\* another model is cached.
C5_Witness ==
    /\ last.op = "model_generate"
    /\ last.ret = Raises("assert_path_exists")
    /\ last.obs.loads = 1
    /\ DOMAIN _models # {}

\* C6 as stated: model_record_default called with a partition outside
\* {train, valid, test} raises the precondition failure and streams nothing.
C6_BadPartitionRaises ==
    (last.op = "model_record_default" /\ last.dataset \notin ValidPartitions) =>
        last.ret = Raises("AssertionError") /\ NoStreaming(last.obs)

\* C6 amended: model_record_default called with a partition outside
\* {train, valid, test} streams nothing (no recorder, no producer, no
\* evaluate_and_record call, record_every of every handle as it was); it raises
\* the precondition failure when the name resolves to a handle, returns None
\* when the name is not in the catalog, and raises the error of
\* assert_path_exists when the load fails on the missing checkpoint directory.
C6_BadPartitionNoStreaming ==
    [][(last'.op = "model_record_default" /\ last'.dataset \notin ValidPartitions) =>
        /\ NoStreaming(last'.obs)
        /\ \A h \in DOMAIN evaluator : evaluator'[h] = evaluator[h]
        /\ last'.ret =
             IF last'.obs.model # NoModel THEN Raises("AssertionError")
             ELSE IF last'.name \notin Catalog THEN Returns(None)
             ELSE Raises("assert_path_exists")]_vars

\* C6 witness: the precondition failure was raised for a cached model whose
\* record_every an earlier ad-hoc recording had set.
C6_Witness ==
    /\ last.op = "model_record_default"
    /\ last.dataset \notin ValidPartitions
    /\ last.ret = Raises("AssertionError")
    /\ last.obs.loads = 0
    /\ evaluator[last.obs.model.id] = MaxLen

\* C7 as stated: model_record_sequence lets no exception escape, whatever the
\* name, the sequences and the collaborators' failures.
C7_RecordSequenceNeverRaises ==
    last.op = "model_record_sequence" =>
        last.ret \in {Returns("evals"), Returns(None)}

\* C7 amended: model_record_sequence lets no exception of the streaming call
\* escape: once evaluate_and_record is called it returns the recorder's pairs
\* when the call completes and None when it raises.  Failures before the
\* streaming call are raised to the caller: the missing checkpoint directory
\* of the load, a Feeder that cannot be iterated, max() of an empty
\* `sequences`, and a failure of SentenceProducer.  With an unknown name it
\* returns None.
C7_RecordSequenceRaisesOnlyBeforeStreaming ==
    last.op = "model_record_sequence" =>
        LET o == last.obs
            q == last.sequences
        IN  /\ o.evalCalls = 1 =>
                last.ret = Returns(IF o.exc = None THEN "evals" ELSE None)
            /\ last.ret.kind = "raise" =>
                /\ o.evalCalls = 0
                /\ last.ret.val \in
                     {"assert_path_exists", "TypeError", "ValueError", "SentenceProducer"}
            /\ last.ret.val = "assert_path_exists" <=>
                 (last.name \in Catalog /\ o.model = NoModel)
            /\ last.ret.val = "TypeError" <=> (o.model # NoModel /\ ~q.iterable)
            /\ last.ret.val = "ValueError" <=>
                 (o.model # NoModel /\ q.iterable /\ q.count = 0)
            /\ last.ret.val = "SentenceProducer" =>
                 (q.kind = "list" /\ q.count > 0 /\ o.recorder = "BufferRecorder")
            /\ (o.evalCalls = 0 /\ last.ret.kind = "return") =>
                 (last.name \notin Catalog /\ last.ret = Returns(None))

\* C7 witness: evaluate_and_record raised something other than ValueError and
\* model_record_sequence returned None.
C7_Witness ==
    /\ last.op = "model_record_sequence"
    /\ last.obs.evalCalls = 1
    /\ last.obs.exc = "RuntimeError"
    /\ last.ret = Returns(None)

\* C8: for a resolvable model and a valid partition, model_record_default
\* returns True exactly when evaluate_and_record completes and False when it
\* raises; the failure is not raised to the caller, and the call makes no
\* second evaluate_and_record call on the recorder after it.
C8_RecordDefaultOutcome ==
    (/\ last.op = "model_record_default"
     /\ last.obs.model # NoModel
     /\ last.dataset \in ValidPartitions) =>
        LET o == last.obs
        IN  /\ last.ret = Returns("True") <=> (o.evalCalls = 1 /\ o.exc = None)
            /\ o.exc # None => last.ret = Returns("False")
            /\ last.ret = Returns("False") => o.exc # None
            /\ last.ret.kind = "raise" => o.evalCalls = 0
            /\ o.evalCalls <= 1
            /\ o.evalCalls = 1 => o.recorder = "StateRecorder"

\* C8 witness: evaluate_and_record raised in a canonical recording, which
\* returned False.
C8_Witness ==
    /\ last.op = "model_record_default"
    /\ last.dataset = "valid"
    /\ last.obs.evalCalls = 1
    /\ last.obs.exc = "RuntimeError"
    /\ last.ret = Returns("False")

\* C9: whenever model_record_sequence calls evaluate_and_record, the
\* evaluator's record_every is the length of the longest sequence of the
\* call, and so is the window of the producer the call builds (it builds one
\* unless `sequences` is a Feeder already), whatever the batch and whatever
\* recording ran before on the model.
C9_AdHocStride ==
    (last.op = "model_record_sequence" /\ last.obs.evalCalls = 1) =>
        /\ last.obs.stride = last.sequences.longest
        /\ evaluator[last.obs.model.id] = last.sequences.longest
        /\ last.sequences.kind = "list" => last.obs.window = last.sequences.longest
        /\ last.sequences.kind = "Feeder" => last.obs.window = 0

\* C9 witness: an ad-hoc recording of a full batch streams on a model whose
\* record_every a canonical recording had set to another value.
C9_Witness ==
    /\ last.op = "model_record_sequence"
    /\ last.obs.evalCalls = 1
    /\ last.sequences.count = MaxSeqs
    /\ last.sequences.longest = MaxLen
    /\ last.obs.stride = MaxLen
    /\ last.obs.before = _train_configs[last.name].num_steps
    /\ last.obs.before \notin {MaxLen, add_evaluator(1, 1, 100, TRUE)}

\* C10: whenever model_record_default calls evaluate_and_record, the window
\* of the producer and the evaluator's record_every are the num_steps of the
\* model's training configuration, never the max_len an earlier
\* model_record_sequence left in the evaluator.
C10_CanonicalGranularity ==
    (last.op = "model_record_default" /\ last.obs.evalCalls = 1) =>
        LET num_steps ==
                config_num_steps(get_path(_config_dir, _available_models[last.name].config))
        IN  /\ _train_configs[last.name].num_steps = num_steps
            /\ last.obs.window = num_steps
            /\ last.obs.stride = num_steps
            /\ evaluator[last.obs.model.id] = num_steps

\* C10 witness: a canonical recording streams on a model in whose evaluator
\* an ad-hoc recording had left a max_len that is not num_steps.
C10_Witness ==
    /\ last.op = "model_record_default"
    /\ last.obs.evalCalls = 1
    /\ last.obs.before = MaxLen
    /\ last.obs.before # _train_configs[last.name].num_steps
    /\ last.obs.stride = _train_configs[last.name].num_steps

\* C15: for a resolvable model, model_state_projection called with a method
\* other than 'tsne' returns None, raises nothing and calls neither
\* get_tsne_projection nor the JSON packer.
C15_UnsupportedMethodGivesNone ==
    (/\ last.op = "model_state_projection"
     /\ last.obs.model # NoModel
     /\ last.obs.method # "tsne") =>
        /\ last.ret = Returns(None)
        /\ last.obs.collab = None

\* C15 witness: a projection by another method was asked of a model that the
\* call itself loaded, and None came back.
C15_Witness ==
    /\ last.op = "model_state_projection"
    /\ last.obs.method = "pca"
    /\ last.obs.model # NoModel
    /\ last.obs.loads = 1
    /\ last.ret = Returns(None)

\* The operations that only read recorded state or the model.
ReadOnlyOps ==
    {"model_generate", "model_sentences_to_ids", "model_state_signature",
     "model_strength", "model_state_projection"}

\* C17: model_generate, model_sentences_to_ids, model_state_signature,
\* model_strength and model_state_projection change the record_every of no
\* model and remove or replace no cache entry; all they may add to the cache is
\* the handle and the configuration of the name asked for, when it is first
\* resolved.
C17_ReadOnlyFrame ==
    [][last'.op \in ReadOnlyOps =>
        /\ \A h \in DOMAIN evaluator : h \in DOMAIN evaluator' /\ evaluator'[h] = evaluator[h]
        /\ \A n \in DOMAIN _models : n \in DOMAIN _models' /\ _models'[n] = _models[n]
        /\ \A n \in DOMAIN _train_configs :
              n \in DOMAIN _train_configs' /\ _train_configs'[n] = _train_configs[n]
        /\ DOMAIN _models' \ DOMAIN _models \subseteq {last'.name}
        /\ DOMAIN _train_configs' = DOMAIN _models'
        /\ (DOMAIN _models' # DOMAIN _models => last'.obs.loads = 1)
        /\ restored \subseteq restored']_vars

\* C17 witness: a read-only operation ran on a cached model whose record_every
\* an ad-hoc recording had set, and the value is still there.
C17_Witness ==
    /\ last.op = "model_generate"
    /\ last.obs.loads = 0
    /\ last.obs.model # NoModel
    /\ last.obs.before = MaxLen
    /\ evaluator[last.obs.model.id] = MaxLen

\* C16 as stated: for method 'tsne' on a model of L layers projecting P points,
\* a negative layer gives labels L-1 and a histogram with P at index L-1 and 0
\* elsewhere; 0 <= layer < L gives labels `layer` and a histogram with P at
\* index `layer` and 0 elsewhere.
C16_ProjectionLayerResolution ==
    (proj.done /\ proj.layer < proj.layer_num) =>
        LET L == proj.layer_num
            resolved == IF proj.layer < 0 THEN L - 1 ELSE proj.layer
        IN  /\ proj.exc = None
            /\ proj.labels = [i \in 1..proj.points |-> resolved]
            /\ proj.states_num =
                 [i \in 1..L |-> IF i = resolved + 1 THEN proj.points ELSE 0]

\* C18: every handle a non-training resolution gives (_get_model(name, False),
\* as every public operation calls it) has had restore() applied, also when the
\* name was first resolved with train=True.
C18_NonTrainingHandleRestored ==
    (/\ last.op \in ResolvingOps \cup {"_get_model(train=False)"}
     /\ last.obs.model # NoModel) =>
        /\ last.obs.model.id \in restored
        /\ calls.restore[last.name] >= 1

\* C19 as stated: with two callers interleaved statement by statement, a caller
\* that got a handle from _get_model(name) finds the name in _train_configs
\* when it reads the paired configuration.
C19_ConfigPresentForHandle ==
    \A c \in Callers : callers[c].result # "KeyError"

\* C19 amended: with two callers interleaved statement by statement, the name
\* is in _models without being in _train_configs exactly while a caller stands
\* between lines 77 and 78 of _load_model for that name; a caller reading the
\* paired configuration in that window gets a KeyError, and outside it the
\* configuration of every cached name is present.
C19_WindowBetween77And78 ==
    /\ DOMAIN _train_configs \subseteq DOMAIN _models
    /\ \A n \in DOMAIN _models \ DOMAIN _train_configs :
        \E c \in Callers : At(c, "78") /\ callers[c].name = n
    /\ \A c \in Callers :
        callers[c].result = "KeyError" =>
            /\ callers[c].model # NoModel
            /\ callers[c].name \in DOMAIN _models

\* C19 witness: one caller stands between lines 77 and 78 and the other has
\* got the handle and a KeyError for the same name.
C19_Witness ==
    \E c, d \in Callers :
        /\ At(c, "78")
        /\ callers[d].result = "KeyError"
        /\ callers[d].name = callers[c].name
        /\ callers[d].model = _models[callers[c].name]

----------------------------------------------------------------------------
(* The Branching Generator's tree *)

Returned == gen.phase = "done"

ChildrenOf(n) ==
    {c \in gen.nodes : c.depth = n.depth + 1 /\ SubSeq(c.path, 1, n.depth) = n.path}

ParentPath(n) == SubSeq(n.path, 1, n.depth - 1)

Generated == {n \in gen.nodes : n.depth > 0}

RECURSIVE SumCond(_)
SumCond(S) ==
    IF S = {} THEN 0
    ELSE LET n == CHOOSE m \in S : TRUE IN n.cond + SumCond(S \ {n})

\* C11: in the returned tree every node has at most max_branch children, and
\* the conditional probabilities of the children of a node sum to at most
\* accum_cond_prob.
C11_PerNodeBudget ==
    Returned =>
        \A n \in gen.nodes :
            /\ Cardinality(ChildrenOf(n)) <= gen.par.max_branch
            /\ SumCond(ChildrenOf(n)) <= gen.par.accum_cond_prob

\* C11 witness: the seeds' node got max_branch = 2 children whose conditional
\* probabilities use the whole of a budget under one.
C11_Witness ==
    /\ Returned
    /\ gen.par.max_branch >= 2
    /\ gen.par.accum_cond_prob < Scale
    /\ Cardinality(ChildrenOf(Root)) = gen.par.max_branch
    /\ SumCond(ChildrenOf(Root)) = gen.par.accum_cond_prob

\* C12: in the returned tree no generated node has a conditional probability
\* under min_cond_prob or a cumulative path probability under min_prob, and
\* the branch slots used at a node are its children: a candidate dropped for
\* min_prob took none.
C12_Thresholds ==
    Returned =>
        /\ \A n \in Generated :
            /\ n.cond >= gen.par.min_cond_prob
            /\ AtLeastMinProb(n.cum, n.depth, gen.par.min_prob)
        /\ \A e \in gen.expanded :
            \A n \in gen.nodes :
                n.path = e.path => e.used = Cardinality(ChildrenOf(n))

\* C12 witness: with both thresholds above zero, a node kept a child and
\* dropped a candidate for min_prob.
C12_Witness ==
    /\ Returned
    /\ gen.par.min_cond_prob > 0
    /\ gen.par.min_prob > 0
    /\ \E e \in gen.expanded : e.dropped > 0 /\ e.used > 0

\* C13: in the returned tree no generated node, at any depth, is a token of
\* neg_word_ids, and the conditional probability of a node is the probability
\* the model gave its token, not renormalized.
C13_NeglectedExcluded ==
    Returned =>
        \A n \in Generated :
            /\ n.token \notin gen.par.neg_word_ids
            /\ n.cond = Prob(gen.d, ParentPath(n))[n.token]

\* C13 witness: a node at depth two whose parent's distribution gave positive
\* probability to a neglected token.
C13_Witness ==
    /\ Returned
    /\ \E n \in Generated :
        /\ n.depth = 2
        /\ n.cond > 0
        /\ Sum(Prob(gen.d, ParentPath(n)), gen.par.neg_word_ids) > 0

\* The nodes of a full tree of max_branch children per node, max_step deep.
RECURSIVE NodeBound(_, _)
NodeBound(max_branch, max_step) ==
    IF max_step = 0 THEN 1 ELSE 1 + max_branch * NodeBound(max_branch, max_step - 1)

\* C14: every search ends, as each round of a search visits one node more, a
\* search visits at most 1 + k + ... + k^max_step nodes (k = max_branch) and
\* returns only with no node left to visit; no node of the tree is deeper than
\* max_step; in the returned tree every node was visited, a node is without
\* children exactly if it is at depth max_step or had no surviving candidate,
\* and the tree is the seeds' node alone when no candidate survived at the
\* first step.
C14_TerminatesWithinMaxStep ==
    /\ [][gen.phase = "search" =>
            \/ /\ gen'.phase = "done"
               /\ gen.frontier = <<>>
               /\ gen'.nodes = gen.nodes
            \/ /\ gen'.phase = "search"
               /\ Cardinality(gen'.expanded) = Cardinality(gen.expanded) + 1
               /\ Cardinality(gen'.expanded) <=
                      NodeBound(gen.par.max_branch, gen.par.max_step)]_vars
    /\ [](gen.phase # "idle" => \A n \in gen.nodes : n.depth <= gen.par.max_step)
    /\ [](Returned =>
            /\ {e.path : e \in gen.expanded} = {n.path : n \in gen.nodes}
            /\ \A n \in gen.nodes :
                ChildrenOf(n) = {} <=>
                    \/ n.depth = gen.par.max_step
                    \/ Branches(gen.d, gen.par, n).selected = <<>>
            /\ (gen.par.max_step = 0 \/ Branches(gen.d, gen.par, Root).selected = <<>>)
                    => gen.nodes = {Root})

\* C14 witness: a returned tree with a node at depth max_step >= 2 and a
\* branch that stopped above it for want of a surviving candidate.
C14_Witness ==
    /\ Returned
    /\ gen.par.max_step >= 2
    /\ \E n \in gen.nodes : n.depth = gen.par.max_step
    /\ \E n \in Generated : n.depth < gen.par.max_step /\ ChildrenOf(n) = {}

====
